---- MODULE Spec2Model ----
(***************************************************************************)
(* SageMind: a Telegram bot (python-telegram-bot Application) with mood    *)
(* logging, journaling, affirmations and a sentiment chat path.            *)
(*                                                                         *)
(* The state is the module's three dictionaries, the conversation tables   *)
(* of the two ConversationHandlers registered in main(), the wall clock,   *)
(* and the position of the single event loop.  Every update is one action: *)
(* the handlers are registered in one group, so the first handler whose    *)
(* check accepts the update handles it and no other handler sees it.       *)
(*                                                                         *)
(* Scope of the model: private chats (the conversation key of a            *)
(* ConversationHandler, (chat id, user id), is then the chat id that keys  *)
(* mood_log and journal_log), message updates only, replies always sent.   *)
(*                                                                         *)
(* A message text is a sequence of tokens; a bot command is the token "/"  *)
(* followed by the command name, as Telegram marks it with a bot_command   *)
(* entity at offset 0.  A reply is a sequence of tokens too, so that an     *)
(* f-string is a concatenation.                                            *)
(***************************************************************************)
EXTENDS Integers, Sequences, FiniteSets, TLC

\* ---------------------------------------------------------------- bounds
\* Updates delivered by the platform in one run.
MaxUpdates == 4
\* Seconds the wall clock advances in one run.
MaxClock == 1
\* Handler coroutines suspended at an await at one time, where the
\* application handles updates concurrently.
MaxInFlight == 2
\* Updates delivered in one run where the application handles them concurrently.
MaxConcurrentUpdates == 3

\* Two private chats.
ChatIds == {101, 202}

\* ------------------------------------------------------------- constants
MOOD == 0
JOURNAL == 1
END == -1

sentiment_labels == <<"negative", "positive">>

affirmations ==
  << <<"You are stronger than you think.">>,
     <<"Your feelings are valid and important.">>,
     <<"Every day is a step forward, no matter how small.">>,
     <<"Take a deep breath. You've got this.">>,
     <<"You are enough just as you are.">>,
     <<"Believe in yourself - you have so much potential!">>,
     <<"Your journey is unique, and you're doing amazing.">>,
     <<"You are worthy of all the good things coming your way.">>,
     <<"Don't forget to take care of yourself. You matter.">>,
     <<"You've faced challenges before, and you can overcome this too.">> >>

positive_responses ==
  << <<"I'm so happy you're feeling good! Keep up the great work!">>,
     <<"That's fantastic! You're doing an amazing job.">>,
     <<"It's great to hear that! You're on the right track.">>,
     <<"Wow! Keep riding this positive energy. You're unstoppable!">>,
     <<"I'm really glad you're feeling so great! Keep shining!">> >>

negative_responses ==
  << <<"I'm really sorry you're feeling this way. Let's talk it through.">>,
     <<"It's okay to feel down sometimes. I'm here for you.">>,
     <<"I'm sorry you're going through this. You're not alone.">>,
     <<"I hear you, and I understand how tough things can get. Let's work through it together.">>,
     <<"It's okay to not feel okay sometimes. I'm here to listen.">> >>

StartText == <<"Hi there! I'm your mental health chatbot. ... You can also chat with me!">>
HelpText == <<"Here are the things you can do: ... You can also chat with me about your feelings!">>
MoodPrompt == <<"How are you feeling today? (e.g., Happy, Sad, Anxious)">>
JournalPrompt == <<"Write your thoughts below. I'll keep them private.">>
JournalAck == <<"Thank you for sharing. I've saved your journal entry.">>
FallbackReply == <<"I'm here to listen. Please share more about how you're feeling.">>
EndAck == <<"Thank you for sharing. Your session data has been cleared.">>

\* Mutant: a static acknowledgment, the mood is not echoed.
MoodAckStatic(mood) == <<"Thank you for sharing! I've logged your mood.">>

\* f"Thank you for sharing! I've logged your mood as '{mood}'."
MoodAck(mood) == <<"Thank you for sharing! I've logged your mood as '">> \o mood \o <<"'.">>

\* ---------------------------------------------------------------- inputs
\* The message texts the platform delivers: the empty text, plain texts,
\* the six registered commands, one of them in upper case, and a command
\* no handler is registered for.
PlainTexts == { <<"Anxious">>, <<"Happy">> }
CommandTexts ==
  { <<"/", "start">>, <<"/", "help">>, <<"/", "mood">>, <<"/", "journal">>,
    <<"/", "affirmation">>, <<"/", "end">>, <<"/", "MOOD">>, <<"/", "foo">> }
Texts == { << >> } \cup PlainTexts \cup CommandTexts

\* ----------------------------------------------------------------- state
VARIABLES
  telegram_bot_token, \* TRUE iff the token is set in the environment
  pc,                 \* "init" | "polling" | "exited" | "classifying"
  response_history,   \* dict chat id -> history
  mood_log,           \* dict chat id -> [mood, timestamp]
  journal_log,        \* dict chat id -> sequence of [entry, timestamp]
  mood_conv,          \* conversation table of the /mood ConversationHandler
  journal_conv,       \* conversation table of the /journal ConversationHandler
  now,                \* wall clock, seconds
  updates,            \* updates delivered so far
  last,               \* the update handled last: chat, text, handler, what the
                      \* classifier did (if called), reply
  in_flight,          \* handler coroutines suspended at their await of reply_text
  sent                \* per chat, the texts the dispatcher handed to log_mood (how
                      \* many, the latest, the one before) and to save_journal (all)

vars == <<telegram_bot_token, pc, response_history, mood_log, journal_log,
          mood_conv, journal_conv, now, updates, last, in_flight, sent>>

store == <<response_history, mood_log, journal_log>>
flows == <<mood_conv, journal_conv>>

\* ----------------------------------------------------------- dictionaries
EmptyDict == [k \in {} |-> {}]
Put(d, k, v) == [x \in (DOMAIN d) \cup {k} |-> IF x = k THEN v ELSE d[x]]
Del(d, k) == [x \in (DOMAIN d) \ {k} |-> d[x]]

\* datetime.now().strftime("%Y-%m-%d %H:%M:%S")
Strftime(t) == <<"2026-11-01 00:00:", t>>

NoReply == << >>
NoUpdate == [chat |-> 0, text |-> << >>, handler |-> "", classifier |-> "", reply |-> NoReply]

\* -------------------------------------------------- filters and handlers
\* str.lower() on the command names the inputs use.
Lower(s) == IF s = "MOOD" THEN "mood" ELSE s

\* filters.TEXT: the message has a non-empty text.
FilterText(text) == Len(text) > 0

\* filters.COMMAND: the text starts with a bot command.
FilterCommand(text) == Len(text) >= 2 /\ text[1] = "/"

\* Mutant: the filter is filters.TEXT alone.
TextOnly(text) == FilterText(text)

\* filters.TEXT & ~filters.COMMAND
TextNotCommand(text) == FilterText(text) /\ ~FilterCommand(text)

\* CommandHandler(command, ...).check_update: the text starts with a bot
\* command whose name, lower-cased, is the handler's command.
CommandHandlerCheck(command, text) == FilterCommand(text) /\ Lower(text[2]) = command

\* Mutant: allow_reentry on, the entry point is tried in every state.
ConversationCheckReentry(conv, chat, text, command, entry, callback) ==
  IF CommandHandlerCheck(command, text) THEN entry
  ELSE IF chat \in DOMAIN conv /\ FilterText(text) /\ ~FilterCommand(text) THEN callback
  ELSE "none"

\* ConversationHandler.check_update with allow_reentry off and no fallbacks:
\* with no conversation for the key only the entry point is tried, with one
\* only the handlers of its state.  The result is the callback to run, or
\* "none" when the handler does not take the update.
ConversationCheck(conv, chat, text, command, entry, callback) ==
  IF chat \notin DOMAIN conv
  THEN IF CommandHandlerCheck(command, text) THEN entry ELSE "none"
  ELSE IF TextNotCommand(text) THEN callback ELSE "none"

\* Mutant: the /journal ConversationHandler is added before the /mood one.
RouteJournalFirst(chat, text) ==
  IF CommandHandlerCheck("start", text) THEN "start"
  ELSE IF CommandHandlerCheck("help", text) THEN "help_command"
  ELSE IF CommandHandlerCheck("affirmation", text) THEN "affirmation"
  ELSE IF CommandHandlerCheck("end", text) THEN "end_chat"
  ELSE IF chat \notin DOMAIN journal_conv /\ CommandHandlerCheck("journal", text) THEN "journal"
  ELSE IF chat \in DOMAIN journal_conv /\ FilterText(text) /\ ~FilterCommand(text)
       THEN "save_journal"
  ELSE IF chat \notin DOMAIN mood_conv /\ CommandHandlerCheck("mood", text) THEN "mood"
  ELSE IF chat \in DOMAIN mood_conv /\ FilterText(text) /\ ~FilterCommand(text) THEN "log_mood"
  ELSE IF FilterText(text) /\ ~FilterCommand(text) THEN "chat"
  ELSE "none"

\* Mutant: the chat MessageHandler is not added.
RouteNoChat(chat, text) ==
  IF CommandHandlerCheck("start", text) THEN "start"
  ELSE IF CommandHandlerCheck("help", text) THEN "help_command"
  ELSE IF CommandHandlerCheck("affirmation", text) THEN "affirmation"
  ELSE IF CommandHandlerCheck("end", text) THEN "end_chat"
  ELSE IF chat \notin DOMAIN mood_conv /\ CommandHandlerCheck("mood", text) THEN "mood"
  ELSE IF chat \in DOMAIN mood_conv /\ FilterText(text) /\ ~FilterCommand(text) THEN "log_mood"
  ELSE IF chat \notin DOMAIN journal_conv /\ CommandHandlerCheck("journal", text) THEN "journal"
  ELSE IF chat \in DOMAIN journal_conv /\ FilterText(text) /\ ~FilterCommand(text)
       THEN "save_journal"
  ELSE "none"

\* Mutant: the chat MessageHandler is added before the ConversationHandlers.
RouteChatFirst(chat, text) ==
  IF CommandHandlerCheck("start", text) THEN "start"
  ELSE IF CommandHandlerCheck("help", text) THEN "help_command"
  ELSE IF CommandHandlerCheck("affirmation", text) THEN "affirmation"
  ELSE IF CommandHandlerCheck("end", text) THEN "end_chat"
  ELSE IF FilterText(text) /\ ~FilterCommand(text) THEN "chat"
  ELSE IF chat \notin DOMAIN mood_conv /\ CommandHandlerCheck("mood", text) THEN "mood"
  ELSE IF chat \notin DOMAIN journal_conv /\ CommandHandlerCheck("journal", text) THEN "journal"
  ELSE "none"

\* Application.process_update over the handlers of main(), in the order they
\* were added: the first handler that accepts the update handles it.
Route(chat, text) ==
  IF CommandHandlerCheck("start", text) THEN "start"
  ELSE IF CommandHandlerCheck("help", text) THEN "help_command"
  ELSE IF CommandHandlerCheck("affirmation", text) THEN "affirmation"
  ELSE IF CommandHandlerCheck("end", text) THEN "end_chat"
  ELSE IF ConversationCheck(mood_conv, chat, text, "mood", "mood", "log_mood") # "none"
       THEN ConversationCheck(mood_conv, chat, text, "mood", "mood", "log_mood")
  ELSE IF ConversationCheck(journal_conv, chat, text, "journal", "journal", "save_journal") # "none"
       THEN ConversationCheck(journal_conv, chat, text, "journal", "journal", "save_journal")
  ELSE IF TextNotCommand(text) THEN "chat"
  ELSE "none"

\* Mutant: END is stored like a state and the key is never removed.
UpdateStateKeepsKey(conv, chat, new_state) == Put(conv, chat, new_state)

\* ConversationHandler._update_state: END removes the key, a state sets it.
UpdateState(conv, chat, new_state) ==
  IF new_state = END THEN Del(conv, chat) ELSE Put(conv, chat, new_state)

\* Mutant: updates are handled concurrently, also during a classifier call.
ReadyConcurrent == pc \in {"polling", "classifying"} /\ updates < MaxUpdates

\* The event loop takes the next update: polling, and updates left to deliver.
Ready == pc = "polling" /\ updates < MaxUpdates

\* The handler's await of reply_text returns within the step of the update:
\* the reply is sent and no coroutine stays suspended.
Handled(chat, text, handler, classifier, reply) ==
  /\ updates' = updates + 1
  /\ in_flight' = in_flight
  /\ last' = [chat |-> chat, text |-> text, handler |-> handler,
              classifier |-> classifier, reply |-> reply]

\* ------------------------------------------------------------- the state
NoSent == [c \in ChatIds |-> [moods |-> 0, mood |-> << >>, before |-> << >>, journal |-> << >>]]

Init ==
  /\ telegram_bot_token \in BOOLEAN
  /\ pc = "init"
  /\ response_history = EmptyDict
  /\ mood_log = EmptyDict
  /\ journal_log = EmptyDict
  /\ mood_conv = EmptyDict
  /\ journal_conv = EmptyDict
  /\ now = 0
  /\ updates = 0
  /\ last = NoUpdate
  /\ in_flight = << >>
  /\ sent = NoSent

\* Mutant: main() goes on to build the application without testing the token.
MainNoTokenTest ==
  /\ pc = "init"
  /\ pc' = "polling"
  /\ UNCHANGED <<telegram_bot_token, store, flows, now, updates, last, in_flight, sent>>

\* main(): without a token the process reports the error and returns;
\* with one it registers the handlers and polls.
Main ==
  /\ pc = "init"
  /\ pc' = IF telegram_bot_token THEN "polling" ELSE "exited"
  /\ UNCHANGED <<telegram_bot_token, store, flows, now, updates, last, in_flight, sent>>

\* The wall clock advances.
Tick ==
  /\ now < MaxClock
  /\ now' = now + 1
  /\ UNCHANGED <<telegram_bot_token, pc, store, flows, updates, last, in_flight, sent>>

Start(chat, text) ==
  /\ Ready
  /\ Route(chat, text) = "start"
  /\ Handled(chat, text, "start", "", StartText)
  /\ UNCHANGED <<telegram_bot_token, pc, store, flows, now, sent>>

HelpCommand(chat, text) ==
  /\ Ready
  /\ Route(chat, text) = "help_command"
  /\ Handled(chat, text, "help_command", "", HelpText)
  /\ UNCHANGED <<telegram_bot_token, pc, store, flows, now, sent>>

Mood(chat, text) ==
  /\ Ready
  /\ Route(chat, text) = "mood"
  /\ mood_conv' = UpdateState(mood_conv, chat, MOOD)
  /\ Handled(chat, text, "mood", "", MoodPrompt)
  /\ UNCHANGED <<telegram_bot_token, pc, store, journal_conv, now, sent>>

\* Mutant: the first report is kept (setdefault instead of assignment).
LogMoodLogKeepFirst(log, chat, mood, timestamp) ==
  IF chat \in DOMAIN log THEN log ELSE Put(log, chat, [mood |-> mood, timestamp |-> timestamp])

\* Mutant: one entry object shared by every chat of the log.
LogMoodLogShared(log, chat, mood, timestamp) ==
  [x \in (DOMAIN log) \cup {chat} |-> [mood |-> mood, timestamp |-> timestamp]]

\* Mutant: the entry is stored without its timestamp (set only after the await).
LogMoodLogNoTimestamp(log, chat, mood, timestamp) == Put(log, chat, [mood |-> mood])

\* mood_log[user_id] = {"mood": mood, "timestamp": timestamp}
LogMoodLog(log, chat, mood, timestamp) ==
  Put(log, chat, [mood |-> mood, timestamp |-> timestamp])

LogMood(chat, text) ==
  /\ Ready
  /\ Route(chat, text) = "log_mood"
  /\ mood_log' = LogMoodLog(mood_log, chat, text, Strftime(now))
  /\ mood_conv' = UpdateState(mood_conv, chat, END)
  /\ Handled(chat, text, "log_mood", "", MoodAck(text))
  /\ sent' = [sent EXCEPT ![chat].moods = @ + 1, ![chat].mood = text,
                         ![chat].before = sent[chat].mood]
  /\ UNCHANGED <<telegram_bot_token, pc, response_history, journal_log, journal_conv, now>>

Journal(chat, text) ==
  /\ Ready
  /\ Route(chat, text) = "journal"
  /\ journal_conv' = UpdateState(journal_conv, chat, JOURNAL)
  /\ Handled(chat, text, "journal", "", JournalPrompt)
  /\ UNCHANGED <<telegram_bot_token, pc, store, mood_conv, now, sent>>

\* Mutant: the list is created on every call, not only on the first.
SaveJournalLogOverwrite(log, chat, entry, timestamp) ==
  Put(log, chat, <<[entry |-> entry, timestamp |-> timestamp]>>)

\* if user_id not in journal_log: journal_log[user_id] = []
\* journal_log[user_id].append({"entry": entry, "timestamp": timestamp})
SaveJournalLog(log, chat, entry, timestamp) ==
  LET created == IF chat \notin DOMAIN log THEN Put(log, chat, << >>) ELSE log
  IN  Put(created, chat, Append(created[chat], [entry |-> entry, timestamp |-> timestamp]))

SaveJournal(chat, text) ==
  /\ Ready
  /\ Route(chat, text) = "save_journal"
  /\ journal_log' = SaveJournalLog(journal_log, chat, text, Strftime(now))
  /\ journal_conv' = UpdateState(journal_conv, chat, END)
  /\ Handled(chat, text, "save_journal", "", JournalAck)
  /\ sent' = [sent EXCEPT ![chat].journal = Append(@, text)]
  /\ UNCHANGED <<telegram_bot_token, pc, response_history, mood_log, mood_conv, now>>

\* Mutant: the index runs one past the end of the list, and the handler
\* then raises before it replies.
RandomChoicePastEnd(pool) == {pool[i] : i \in 1..Len(pool)} \cup {NoReply}

\* random.choice(pool): what it can return.
RandomChoice(pool) == {pool[i] : i \in 1..Len(pool)}

Affirmation(chat, text) ==
  /\ Ready
  /\ Route(chat, text) = "affirmation"
  /\ \E reply \in RandomChoice(affirmations) : Handled(chat, text, "affirmation", "", reply)
  /\ UNCHANGED <<telegram_bot_token, pc, store, flows, now, sent>>

\* Mutant: the test of the label is inverted.
GenerateResponsesSwapped(sentiment) ==
  IF sentiment = "negative" THEN positive_responses ELSE negative_responses

\* generate_response for a label the classifier returned.
GenerateResponses(sentiment) ==
  IF sentiment = "positive" THEN positive_responses ELSE negative_responses

\* chat(): the classifier returns a label and a reply of its pool is sent.
Chat(chat, text) ==
  /\ Ready
  /\ Route(chat, text) = "chat"
  /\ \E i \in 1..Len(sentiment_labels) :
       LET pool == GenerateResponses(sentiment_labels[i])
       IN  \E j \in 1..Len(pool) : Handled(chat, text, "chat", sentiment_labels[i], pool[j])
  /\ UNCHANGED <<telegram_bot_token, pc, store, flows, now, sent>>

\* Mutant: the except branch leaves the reply empty.
ChatExceptNoReply == NoReply

\* The except branch of chat(): the reply is the fixed string.
ChatExcept == FallbackReply

\* chat(): the classifier raises.
ChatFallback(chat, text) ==
  /\ Ready
  /\ Route(chat, text) = "chat"
  /\ Handled(chat, text, "chat", "raise", ChatExcept)
  /\ UNCHANGED <<telegram_bot_token, pc, store, flows, now, sent>>

\* chat(): the classifier never returns.  generate_response is a plain call
\* (not awaited) inside the coroutine, on the only thread of the event loop,
\* and the Application handles updates one after the other: the loop stays
\* in the call and takes no further update.
ChatHang(chat, text) ==
  /\ Ready
  /\ Route(chat, text) = "chat"
  /\ pc' = "classifying"
  /\ Handled(chat, text, "chat", "hang", NoReply)
  /\ UNCHANGED <<telegram_bot_token, store, flows, now, sent>>

\* Mutant: the test is inverted and a missing history is created.
EndChatHistoryCreates(history, chat) ==
  IF chat \notin DOMAIN history THEN Put(history, chat, << >>) ELSE history

\* Mutant: the end command clears the whole dictionary.
EndChatHistoryClearAll(history, chat) == EmptyDict

\* if user_id in response_history: del response_history[user_id]
EndChatHistory(history, chat) ==
  IF chat \in DOMAIN history THEN Del(history, chat) ELSE history

EndChat(chat, text) ==
  /\ Ready
  /\ Route(chat, text) = "end_chat"
  /\ response_history' = EndChatHistory(response_history, chat)
  /\ Handled(chat, text, "end_chat", "", EndAck)
  /\ UNCHANGED <<telegram_bot_token, pc, mood_log, journal_log, flows, now, sent>>

\* No handler accepts the update: it is dropped without a reply.
Unhandled(chat, text) ==
  /\ Ready
  /\ Route(chat, text) = "none"
  /\ Handled(chat, text, "none", "", NoReply)
  /\ UNCHANGED <<telegram_bot_token, pc, store, flows, now, sent>>

\* One update handled by the handler the application routes it to.
HandleUpdate(chat, text) ==
  \/ Start(chat, text)
  \/ HelpCommand(chat, text)
  \/ Mood(chat, text)
  \/ LogMood(chat, text)
  \/ Journal(chat, text)
  \/ SaveJournal(chat, text)
  \/ Affirmation(chat, text)
  \/ Chat(chat, text)
  \/ ChatFallback(chat, text)
  \/ ChatHang(chat, text)
  \/ EndChat(chat, text)
  \/ Unhandled(chat, text)

Next ==
  \/ Main
  \/ Tick
  \/ \E chat \in ChatIds, text \in Texts : HandleUpdate(chat, text)

Spec == Init /\ [][Next]_vars

\* The handlers run against a store a caller has filled in: chat 101 has a
\* mood entry, a journal entry and a chat history, chat 202 may have a chat
\* history too.
StoredMood == <<"Calm">>
StoredEntry == <<"Dear diary">>

InitStore ==
  /\ telegram_bot_token = TRUE
  /\ pc = "init"
  /\ \E S \in {{101}, ChatIds} : response_history = [c \in S |-> << >>]
  /\ mood_log = LogMoodLog(EmptyDict, 101, StoredMood, Strftime(0))
  /\ journal_log = SaveJournalLog(EmptyDict, 101, StoredEntry, Strftime(0))
  /\ mood_conv = EmptyDict
  /\ journal_conv = EmptyDict
  /\ now = 0
  /\ updates = 0
  /\ last = NoUpdate
  /\ in_flight = << >>
  /\ sent = [NoSent EXCEPT ![101] = [moods |-> 1, mood |-> StoredMood, before |-> << >>,
                                     journal |-> <<StoredEntry>>]]

SpecStore == InitStore /\ [][Next]_vars

\* ------------------------------------------- handlers interleaved at awaits
\* The same handlers where the application handles updates concurrently:
\* a handler coroutine runs from its start to its only await, the one of
\* reply_text, without yielding, and any other coroutine may run before it
\* resumes.  Each handler falls into the part before the await (Begin) and
\* the part from it (Finish).

\* The replies a handler can pass to reply_text.
HandlerReplies(handler, text, classifier) ==
  CASE handler = "start" -> {StartText}
    [] handler = "help_command" -> {HelpText}
    [] handler = "mood" -> {MoodPrompt}
    [] handler = "log_mood" -> {MoodAck(text)}
    [] handler = "journal" -> {JournalPrompt}
    [] handler = "save_journal" -> {JournalAck}
    [] handler = "affirmation" -> {affirmations[i] : i \in 1..Len(affirmations)}
    [] handler = "end_chat" -> {EndAck}
    [] handler = "chat" ->
         IF classifier = "raise" THEN {ChatExcept}
         ELSE {GenerateResponses(classifier)[j] : j \in 1..Len(GenerateResponses(classifier))}

\* The conversation table after the handler has returned.
ReturnState(conv, chat, handler, entry, callback, state) ==
  IF handler = entry THEN UpdateState(conv, chat, state)
  ELSE IF handler = callback THEN UpdateState(conv, chat, END)
  ELSE conv

\* The event loop takes the next update while handlers are suspended.
ReadyAwait == pc = "polling" /\ updates < MaxConcurrentUpdates

\* An update no handler accepts, or a chat message on which the classifier
\* hangs: nothing reaches an await.
BeginNoAwait(chat, text) ==
  /\ ReadyAwait
  /\ \/ Route(chat, text) = "none" /\ pc' = pc
        /\ last' = [chat |-> chat, text |-> text, handler |-> "none",
                    classifier |-> "", reply |-> NoReply]
     \/ Route(chat, text) = "chat" /\ pc' = "classifying"
        /\ last' = [chat |-> chat, text |-> text, handler |-> "chat",
                    classifier |-> "hang", reply |-> NoReply]
  /\ updates' = updates + 1
  /\ UNCHANGED <<telegram_bot_token, store, flows, now, in_flight, sent>>

\* A handler runs up to its await of reply_text: log_mood, save_journal and
\* end_chat have written the store, chat has called the classifier.
Begin(chat, text) ==
  /\ ReadyAwait
  /\ Len(in_flight) < MaxInFlight
  /\ Route(chat, text) # "none"
  /\ LET handler == Route(chat, text)
     IN  /\ mood_log' = IF handler = "log_mood"
                        THEN LogMoodLog(mood_log, chat, text, Strftime(now))
                        ELSE mood_log
         /\ journal_log' = IF handler = "save_journal"
                           THEN SaveJournalLog(journal_log, chat, text, Strftime(now))
                           ELSE journal_log
         /\ response_history' = IF handler = "end_chat"
                                THEN EndChatHistory(response_history, chat)
                                ELSE response_history
         /\ sent' = IF handler = "log_mood"
                    THEN [sent EXCEPT ![chat].moods = @ + 1, ![chat].mood = text,
                                      ![chat].before = sent[chat].mood]
                    ELSE IF handler = "save_journal"
                    THEN [sent EXCEPT ![chat].journal = Append(@, text)]
                    ELSE sent
         /\ \E classifier \in IF handler = "chat"
                               THEN {sentiment_labels[i] : i \in 1..Len(sentiment_labels)}
                                      \cup {"raise"}
                               ELSE {""} :
              in_flight' = Append(in_flight, [chat |-> chat, text |-> text,
                                                handler |-> handler, classifier |-> classifier])
  /\ updates' = updates + 1
  /\ UNCHANGED <<telegram_bot_token, pc, flows, now, last>>

\* The sequence without its i-th element.
Remove(seq, i) == SubSeq(seq, 1, i - 1) \o SubSeq(seq, i + 1, Len(seq))

\* The i-th suspended handler resumes: its reply is sent and what it returns
\* sets the state of its conversation.  (The reply, chosen before the await
\* and independent of the state, is drawn here.)
Finish(i) ==
  /\ pc = "polling"
  /\ in_flight' = Remove(in_flight, i)
  /\ LET co == in_flight[i]
     IN  /\ \E reply \in HandlerReplies(co.handler, co.text, co.classifier) :
              last' = [chat |-> co.chat, text |-> co.text, handler |-> co.handler,
                       classifier |-> co.classifier, reply |-> reply]
         /\ mood_conv' = ReturnState(mood_conv, co.chat, co.handler, "mood", "log_mood", MOOD)
         /\ journal_conv' = ReturnState(journal_conv, co.chat, co.handler,
                                        "journal", "save_journal", JOURNAL)
  /\ UNCHANGED <<telegram_bot_token, pc, store, now, updates, sent>>

\* The texts delivered where handlers interleave: the plain texts, the two
\* flow-start commands, the end command and the empty text.
TextsAwait == PlainTexts \cup { << >>, <<"/", "mood">>, <<"/", "journal">>, <<"/", "end">> }

NextAwait ==
  \/ Main
  \/ \E chat \in ChatIds, text \in TextsAwait : BeginNoAwait(chat, text) \/ Begin(chat, text)
  \/ \E i \in 1..Len(in_flight) : Finish(i)

\* Only the token-present start (the claims about a missing token are
\* checked under Spec), and a run within one second of the wall clock.
InitAwait == Init /\ telegram_bot_token = TRUE

SpecAwait == InitAwait /\ [][NextAwait]_vars

\* ================================================================ claims
\* The vocabulary of the claims, stated on the raw text of a message and on
\* the observable outcome of an update.

\* A command token of the six registered commands, in any letter case.
StartCommands == { <<"/", "start">> }
HelpCommands == { <<"/", "help">> }
MoodCommands == { <<"/", "mood">>, <<"/", "MOOD">> }
JournalCommands == { <<"/", "journal">> }
AffirmationCommands == { <<"/", "affirmation">> }
EndCommands == { <<"/", "end">> }
KnownCommands ==
  StartCommands \cup HelpCommands \cup MoodCommands \cup JournalCommands
    \cup AffirmationCommands \cup EndCommands

\* The empty text.
EmptyText == << >>
\* Text that begins with "/".
CommandLike(text) == text # << >> /\ Head(text) = "/"
\* Non-empty text that does not begin with "/".
FreeText(text) == text # << >> /\ Head(text) # "/"

AwaitingMood(c) == c \in DOMAIN mood_conv
AwaitingJournal(c) == c \in DOMAIN journal_conv

\* The step handles one update.
Delivered == updates' = updates + 1

\* The entry a dictionary holds for a chat, << >> when it holds none.
Entry(d, c) == IF c \in DOMAIN d THEN <<d[c]>> ELSE << >>
\* The texts of a chat's journal, in order.
JournalTexts(log, c) ==
  IF c \in DOMAIN log THEN [i \in 1..Len(log[c]) |-> log[c][i].entry] ELSE << >>
IsPrefix(s, t) == Len(s) <= Len(t) /\ SubSeq(t, 1, Len(s)) = s

\* ------------------------------------------------------------------- C1
\* C1 (as stated): while a flow of a conversation is awaiting input, the next
\* message of the conversation that is not one of the known commands is
\* captured by a flow (log_mood or save_journal), whatever its content: the
\* empty text and command-like text included.
C1_AnyContentCaptured ==
  [][ (Delivered /\ last'.text \notin KnownCommands
         /\ (AwaitingMood(last'.chat) \/ AwaitingJournal(last'.chat)))
      => last'.handler \in {"log_mood", "save_journal"} ]_vars

\* C1 (amended): while a flow of a conversation is awaiting input, the next
\* non-empty text of the conversation that does not begin with "/" is
\* captured: log_mood stores it when the Mood flow is awaiting, save_journal
\* appends it otherwise, and it is not routed to chat.  The empty text and
\* command-like text are not captured: nothing is stored and the awaiting
\* flows stay awaiting.
C1_FreeTextCaptured ==
  [][ Delivered =>
      LET c == last'.chat
          t == last'.text
      IN  /\ (FreeText(t) /\ AwaitingMood(c))
               => /\ last'.handler = "log_mood"
                  /\ c \in DOMAIN mood_log' /\ mood_log'[c].mood = t
          /\ (FreeText(t) /\ ~AwaitingMood(c) /\ AwaitingJournal(c))
               => /\ last'.handler = "save_journal"
                  /\ JournalTexts(journal_log', c) = Append(JournalTexts(journal_log, c), t)
          /\ (~FreeText(t) /\ (AwaitingMood(c) \/ AwaitingJournal(c)))
               => /\ last'.handler \notin {"log_mood", "save_journal", "chat"}
                  /\ mood_log' = mood_log /\ journal_log' = journal_log
                  /\ (AwaitingMood(c) => c \in DOMAIN mood_conv')
                  /\ (AwaitingJournal(c) => c \in DOMAIN journal_conv') ]_vars

\* A mood prompt was answered and the answer is what mood_log holds.
C1_Witness ==
  /\ last.handler = "log_mood"
  /\ FreeText(last.text)
  /\ last.chat \in DOMAIN mood_log /\ mood_log[last.chat].mood = last.text
  /\ ~AwaitingMood(last.chat)

\* ------------------------------------------------------------------- C2
\* C2: after any sequence of completed mood reports of a conversation,
\* mood_log holds one entry for it, a mood and a timestamp, and the mood is
\* the text of the latest report; before the first report it holds none.
C2_MoodOverwrite ==
  \A c \in ChatIds :
    IF sent[c].moods = 0
    THEN c \notin DOMAIN mood_log
    ELSE /\ c \in DOMAIN mood_log
         /\ DOMAIN mood_log[c] = {"mood", "timestamp"}
         /\ mood_log[c].mood = sent[c].mood

\* Two reports with different texts: the second is the one retained.
C2_Witness ==
  \E c \in ChatIds :
    /\ sent[c].moods = 2
    /\ sent[c].before = <<"Anxious">> /\ sent[c].mood = <<"Happy">>
    /\ mood_log[c].mood = <<"Happy">>

\* ------------------------------------------------------------------- C3
\* C3: after n completed journal captures of a conversation its journal
\* sequence has n entries whose texts are the captured messages in capture
\* order, and every step leaves the sequence it found as a prefix of the
\* sequence it leaves.
C3_JournalAppend ==
  /\ [](\A c \in ChatIds :
          /\ JournalTexts(journal_log, c) = sent[c].journal
          /\ (c \in DOMAIN journal_log => Len(journal_log[c]) = Len(sent[c].journal)))
  /\ [][ \A c \in ChatIds :
           /\ (c \in DOMAIN journal_log => c \in DOMAIN journal_log')
           /\ (c \in DOMAIN journal_log => IsPrefix(journal_log[c], journal_log'[c])) ]_vars

\* Two captures with different texts, both kept, in order.
C3_Witness ==
  \E c \in ChatIds :
    /\ c \in DOMAIN journal_log
    /\ Len(journal_log[c]) = 2
    /\ journal_log[c][1].entry = <<"Happy">> /\ journal_log[c][2].entry = <<"Anxious">>

\* ------------------------------------------------------------------- C4
\* C4 (as stated): right after log_mood or save_journal has captured a
\* message of a conversation, the next free text of that conversation goes
\* to the chat path and changes neither the mood entry nor the journal.
C4_NextGoesToChat ==
  [][ (Delivered /\ last.handler \in {"log_mood", "save_journal"}
         /\ last'.chat = last.chat /\ FreeText(last'.text))
      => /\ last'.handler = "chat"
         /\ mood_log' = mood_log /\ journal_log' = journal_log ]_vars

\* C4 (amended): a capture returns its flow to Idle, and a free text of a
\* conversation whose flow is Idle is not captured by that flow and leaves
\* what the flow stored unchanged; it goes to the chat path unless the other
\* flow is awaiting input, which then captures it.
C4_OneCapturePerStart ==
  [][ Delivered =>
      LET c == last'.chat
          t == last'.text
      IN  /\ last'.handler = "log_mood" => c \notin DOMAIN mood_conv'
          /\ last'.handler = "save_journal" => c \notin DOMAIN journal_conv'
          /\ (FreeText(t) /\ ~AwaitingMood(c))
               => /\ mood_log' = mood_log
                  /\ last'.handler = IF AwaitingJournal(c) THEN "save_journal" ELSE "chat"
          /\ (FreeText(t) /\ ~AwaitingJournal(c))
               => /\ journal_log' = journal_log
                  /\ last'.handler = IF AwaitingMood(c) THEN "log_mood" ELSE "chat" ]_vars

\* A mood was captured and a later free text went to chat, the mood kept.
C4_Witness ==
  /\ last.handler = "chat"
  /\ sent[last.chat].moods = 1
  /\ mood_log[last.chat].mood = sent[last.chat].mood
  /\ mood_log[last.chat].mood # last.text
  /\ ~AwaitingMood(last.chat)

\* ------------------------------------------------------------------- C5
\* C5: when the classifier raises on a free text of the chat path, the reply
\* is the fixed fallback string, the three dictionaries and the flow states
\* are as before, and the dispatcher is polling for the next update.
C5_Fallback ==
  [][ (Delivered /\ last'.classifier = "raise")
      => /\ last'.handler = "chat"
         /\ last'.reply = <<"I'm here to listen. Please share more about how you're feeling.">>
         /\ response_history' = response_history
         /\ mood_log' = mood_log
         /\ journal_log' = journal_log
         /\ mood_conv' = mood_conv
         /\ journal_conv' = journal_conv
         /\ pc' = "polling" ]_vars

\* The classifier raised with data stored and a flow of another chat awaiting,
\* and an update can still be handled.
C5_Witness ==
  /\ last.classifier = "raise"
  /\ last.reply = FallbackReply
  /\ last.chat \in DOMAIN mood_log
  /\ \E c \in ChatIds \ {last.chat} : AwaitingMood(c)
  /\ pc = "polling"

\* ------------------------------------------------------------------- C6
\* C6: the end command of a conversation that has a chat history removes
\* that conversation, and no other, from response_history, replies with the
\* fixed acknowledgment, and leaves mood_log and journal_log as they were.
C6_EndClearsFlagOnly ==
  [][ (Delivered /\ last'.text \in EndCommands /\ last'.chat \in DOMAIN response_history)
      => /\ last'.handler = "end_chat"
         /\ DOMAIN response_history' = (DOMAIN response_history) \ {last'.chat}
         /\ \A c \in DOMAIN response_history' : response_history'[c] = response_history[c]
         /\ last'.reply = <<"Thank you for sharing. Your session data has been cleared.">>
         /\ mood_log' = mood_log
         /\ journal_log' = journal_log ]_vars

\* The end command has cleared the history of chat 101, whose mood entry and
\* journal are still stored; chat 202 keeps its history.
C6_Witness ==
  /\ last.handler = "end_chat" /\ last.chat = 101
  /\ DOMAIN response_history = {202}
  /\ 101 \in DOMAIN mood_log /\ mood_log[101].mood = StoredMood
  /\ 101 \in DOMAIN journal_log /\ JournalTexts(journal_log, 101) = <<StoredEntry>>

\* ------------------------------------------------------------------- C7
\* C7 (as stated): every update that is not one of the six known commands
\* and is not captured by a flow is handled by the chat path.
C7_AllElseToChat ==
  (updates > 0 /\ last.text \notin KnownCommands
     /\ last.handler \notin {"log_mood", "save_journal"})
  => last.handler = "chat"

\* C7 (amended): every non-empty text that does not begin with "/" and is
\* not captured by a flow is handled by the chat path, which replies with a
\* member of the pool of the label the classifier returns, or with the
\* fallback string when it raises.  The empty text and a command no handler
\* is registered for are handled by nothing and get no reply.
C7_FreeTextToChat ==
  updates > 0 =>
    /\ (FreeText(last.text) /\ last.handler \notin {"log_mood", "save_journal"})
         => /\ last.handler = "chat"
            /\ last.classifier \in {"negative", "positive", "raise", "hang"}
            /\ last.classifier = "positive"
                 => \E i \in 1..Len(positive_responses) : last.reply = positive_responses[i]
            /\ last.classifier = "negative"
                 => \E i \in 1..Len(negative_responses) : last.reply = negative_responses[i]
            /\ last.classifier = "raise" => last.reply = FallbackReply
    /\ (~FreeText(last.text) /\ last.text \notin KnownCommands)
         => last.handler = "none" /\ last.reply = NoReply

\* A free text outside any flow got a reply of the chat path.
C7_Witness ==
  /\ last.handler = "chat"
  /\ last.classifier = "negative"
  /\ last.reply = negative_responses[1]
  /\ ~AwaitingMood(last.chat) /\ ~AwaitingJournal(last.chat)

\* ------------------------------------------------------------------- C8
\* C8 (as stated): a conversation that is AwaitingMood keeps its free text
\* out of the chat path and stays AwaitingMood through every update, except
\* that a free text of the conversation is captured and returns the flow to
\* Idle, and that /mood restarts the flow: the prompt is emitted again and
\* the flow is awaiting input.
C8_RestartByCommand ==
  [][ \A c \in ChatIds : (Delivered /\ AwaitingMood(c)) =>
        /\ (last'.chat = c /\ FreeText(last'.text))
             => last'.handler = "log_mood" /\ c \notin DOMAIN mood_conv'
        /\ (last'.chat = c /\ last'.text \in MoodCommands)
             => last'.reply = MoodPrompt /\ c \in DOMAIN mood_conv'
        /\ ~(last'.chat = c /\ FreeText(last'.text)) => c \in DOMAIN mood_conv' ]_vars

\* C8 (amended): a conversation that is AwaitingMood keeps its free text out
\* of the chat path and stays AwaitingMood through every update but a free
\* text of the conversation, which is captured and returns the flow to Idle.
\* No command ends or restarts the wait: /mood is then handled by nothing
\* (no prompt, no reply), and /start, /help, /affirmation, /end and /journal
\* get their usual reply while the flow stays AwaitingMood.
C8_AwaitingUntilReply ==
  [][ \A c \in ChatIds : (Delivered /\ AwaitingMood(c)) =>
        /\ (last'.chat = c /\ FreeText(last'.text))
             => last'.handler = "log_mood" /\ c \notin DOMAIN mood_conv'
        /\ (last'.chat = c /\ last'.text \in MoodCommands)
             => last'.handler = "none" /\ last'.reply = NoReply
        /\ (last'.chat = c /\ last'.text \in StartCommands) => last'.reply = StartText
        /\ (last'.chat = c /\ last'.text \in HelpCommands) => last'.reply = HelpText
        /\ (last'.chat = c /\ last'.text \in EndCommands) => last'.reply = EndAck
        /\ (last'.chat = c /\ last'.text \in AffirmationCommands)
             => last'.handler = "affirmation"
        /\ (last'.chat = c /\ last'.text \in JournalCommands)
             => last'.handler \in {"journal", "none"}
        /\ ~(last'.chat = c /\ FreeText(last'.text)) => c \in DOMAIN mood_conv' ]_vars

\* /mood sent while AwaitingMood: dropped, and the flow is still awaiting.
C8_Witness ==
  /\ last.text \in MoodCommands
  /\ last.handler = "none"
  /\ AwaitingMood(last.chat)

\* ------------------------------------------------------------------- C9
\* C9: handling an update of conversation A leaves the mood entry, the
\* journal and both flow states of every other conversation B unchanged.
C9_Isolation ==
  [][ Delivered =>
      \A b \in ChatIds \ {last'.chat} :
        /\ Entry(mood_log', b) = Entry(mood_log, b)
        /\ Entry(journal_log', b) = Entry(journal_log, b)
        /\ Entry(mood_conv', b) = Entry(mood_conv, b)
        /\ Entry(journal_conv', b) = Entry(journal_conv, b) ]_vars

\* A mood of one chat is captured while the other chat has a mood stored.
C9_Witness ==
  /\ last.handler = "log_mood"
  /\ \E b \in ChatIds \ {last.chat} :
       /\ b \in DOMAIN mood_log
       /\ mood_log[b].mood # mood_log[last.chat].mood

\* ------------------------------------------------------------------ C10
\* An update of the conversation can be handled in this state.
CanHandle(c) == \E text \in Texts : ENABLED HandleUpdate(c, text)

\* C10 (as stated): while a classifier call of one chat event never returns,
\* updates of the other conversations are still handled.
C10_HangIsLocal ==
  (pc = "classifying" /\ updates < MaxUpdates)
  => \A c \in ChatIds \ {last.chat} : CanHandle(c)

\* C10 (amended): a classifier call that never returns hangs the whole
\* dispatcher: from then on no update of any conversation is handled or
\* replied to, and the stored state stays as it is.
C10_HangBlocksAll ==
  pc = "classifying" =>
    /\ last.classifier = "hang" /\ last.reply = NoReply
    /\ \A c \in ChatIds : ~CanHandle(c)

\* The classifier hangs on a chat message of one conversation while the
\* other conversation is in the middle of a mood flow and updates remain.
C10_Witness ==
  /\ pc = "classifying"
  /\ updates < MaxUpdates
  /\ \E c \in ChatIds \ {last.chat} : AwaitingMood(c)

\* ------------------------------------------------------------------ C11
\* A populated text, a populated timestamp.
Populated(x) == Len(x) > 0

\* C11: with handlers interleaved at their awaits, every mood entry and
\* every journal entry in the store has both its text and its timestamp, and
\* the journal of a conversation is as long as the number of writes
\* save_journal has made for it: no append is lost.
C11_AtomicWrites ==
  \A c \in ChatIds :
    /\ c \in DOMAIN mood_log
         => /\ DOMAIN mood_log[c] = {"mood", "timestamp"}
            /\ Populated(mood_log[c].mood) /\ Populated(mood_log[c].timestamp)
    /\ c \in DOMAIN journal_log
         => \A i \in 1..Len(journal_log[c]) :
              /\ DOMAIN journal_log[c][i] = {"entry", "timestamp"}
              /\ Populated(journal_log[c][i].entry)
              /\ Populated(journal_log[c][i].timestamp)
    /\ Len(sent[c].journal) = IF c \in DOMAIN journal_log THEN Len(journal_log[c]) ELSE 0

\* Two save_journal coroutines of one conversation are suspended at their
\* awaits at the same time, and both appends are in the journal.
C11_Witness ==
  /\ Len(in_flight) = 2
  /\ in_flight[1].handler = "save_journal" /\ in_flight[2].handler = "save_journal"
  /\ in_flight[1].chat = in_flight[2].chat
  /\ in_flight[1].text # in_flight[2].text
  /\ JournalTexts(journal_log, in_flight[1].chat) = <<in_flight[1].text, in_flight[2].text>>

\* ------------------------------------------------------------------ C12
\* The sequence part occurs in the sequence whole, contiguously.
Contains(whole, part) ==
  \E i \in 1..(Len(whole) - Len(part) + 1) : SubSeq(whole, i, i + Len(part) - 1) = part

\* C12: when log_mood has captured a text, the mood stored for the
\* conversation is that text, unchanged, its timestamp is populated (the
\* wall clock at a moment up to now), and the acknowledgment sent contains
\* the text.
C12_MoodVerbatim ==
  last.handler = "log_mood" =>
    /\ last.chat \in DOMAIN mood_log
    /\ mood_log[last.chat].mood = last.text
    /\ Populated(mood_log[last.chat].timestamp)
    /\ \E t \in 0..now : mood_log[last.chat].timestamp = <<"2026-11-01 00:00:", t>>
    /\ Contains(last.reply, last.text)
    /\ last.reply # last.text

\* "Anxious" was captured after the clock had advanced: stored as sent, with
\* the later timestamp, and echoed between the quotes of the acknowledgment.
C12_Witness ==
  /\ last.handler = "log_mood"
  /\ last.text = <<"Anxious">>
  /\ mood_log[last.chat] = [mood |-> <<"Anxious">>, timestamp |-> Strftime(1)]
  /\ last.reply = <<"Thank you for sharing! I've logged your mood as '", "Anxious", "'.">>

\* ------------------------------------------------------------------ C13
\* The members of a pool.
Members(pool) == {pool[i] : i \in 1..Len(pool)}

\* C13: whenever the classifier returns on a text, what it returns is one of
\* the two labels, negative and positive, and the reply chosen for the label
\* is a non-empty string of the pool of that label and not of the other
\* pool; the two pools have no string in common.
C13_LabelAndPool ==
  /\ Members(positive_responses) \cap Members(negative_responses) = {}
  /\ (last.handler = "chat" /\ last.classifier \notin {"raise", "hang"})
       => /\ last.classifier \in {"negative", "positive"}
          /\ Populated(last.reply) /\ \A i \in 1..Len(last.reply) : last.reply[i] # ""
          /\ last.classifier = "positive"
               => /\ last.reply \in Members(positive_responses)
                  /\ last.reply \notin Members(negative_responses)
          /\ last.classifier = "negative"
               => /\ last.reply \in Members(negative_responses)
                  /\ last.reply \notin Members(positive_responses)

\* The classifier returned positive and the last string of the positive pool
\* was sent.
C13_Witness ==
  /\ last.handler = "chat"
  /\ last.classifier = "positive"
  /\ last.text = <<"Happy">>
  /\ last.reply = positive_responses[Len(positive_responses)]

\* ------------------------------------------------------------------ C14
\* C14: whatever the store and the flows hold, the dispatcher that is taking
\* updates handles /affirmation, and handling it sends one member of the
\* affirmation pool and leaves mood_log, journal_log, response_history and
\* the flow states of every conversation as they were.
C14_AffirmationStateless ==
  /\ [](Ready => \A c \in ChatIds : ENABLED Affirmation(c, <<"/", "affirmation">>))
  /\ [][ (Delivered /\ last'.text \in AffirmationCommands)
         => /\ last'.handler = "affirmation"
            /\ last'.reply \in Members(affirmations)
            /\ mood_log' = mood_log
            /\ journal_log' = journal_log
            /\ response_history' = response_history
            /\ mood_conv' = mood_conv
            /\ journal_conv' = journal_conv ]_vars

\* /affirmation is answered for a conversation that has a mood stored and is
\* waiting for a journal entry.
C14_Witness ==
  /\ last.handler = "affirmation"
  /\ last.reply = affirmations[Len(affirmations)]
  /\ last.chat \in DOMAIN mood_log
  /\ AwaitingJournal(last.chat)

\* ------------------------------------------------------------------ C15
\* C15: when the token is absent, main() returns before it registers a
\* handler or polls: the process is at its start or has exited, no update
\* has been handled or can be, no reply has been sent and the store is empty.
C15_NoTokenNoService ==
  ~telegram_bot_token =>
    /\ pc \in {"init", "exited"}
    /\ updates = 0
    /\ last = [chat |-> 0, text |-> << >>, handler |-> "", classifier |-> "", reply |-> << >>]
    /\ in_flight = << >>
    /\ DOMAIN mood_log = {} /\ DOMAIN journal_log = {} /\ DOMAIN response_history = {}
    /\ \A c \in ChatIds : ~CanHandle(c)

\* main() has run without a token and returned.
C15_Witness == ~telegram_bot_token /\ pc = "exited"

\* ------------------------------------------------------------------ C16
\* C16: response_history is empty in every reachable state of the running
\* program, so the end command removes nothing: handling it leaves the three
\* dictionaries as they were, and its reply still says that the session data
\* has been cleared.
C16_HistoryAlwaysEmpty ==
  /\ [](DOMAIN response_history = {})
  /\ [][ (Delivered /\ last'.text \in EndCommands)
         => /\ last'.handler = "end_chat"
            /\ response_history' = response_history
            /\ mood_log' = mood_log
            /\ journal_log' = journal_log
            /\ last'.reply = <<"Thank you for sharing. Your session data has been cleared.">> ]_vars

\* The end command was answered for a conversation whose mood is stored:
\* nothing was there to clear and the mood is still stored.
C16_Witness ==
  /\ last.handler = "end_chat"
  /\ last.reply = EndAck
  /\ DOMAIN response_history = {}
  /\ last.chat \in DOMAIN mood_log
  /\ sent[last.chat].moods = 1 /\ mood_log[last.chat].mood = sent[last.chat].mood

\* ------------------------------------------------------------------ C17
\* C17 (as stated): every non-empty text that is not a command is handled by
\* one of log_mood, save_journal and chat, and gets a reply.
C17_OneHandlerOneReply ==
  (updates > 0 /\ FreeText(last.text))
  => /\ last.handler \in {"log_mood", "save_journal", "chat"}
     /\ last.reply # << >>

\* C17 (amended): every non-empty text that is not a command is handled by
\* exactly one of log_mood, save_journal and chat: by log_mood alone when
\* the Mood flow is awaiting (the journal and the Journal flow untouched), by
\* save_journal alone when only the Journal flow is awaiting (the mood entry
\* untouched), by chat alone otherwise (nothing stored); and it gets exactly
\* one reply, except that no reply is sent when the classifier call of the
\* chat path never returns.
C17_OneHandler ==
  [][ (Delivered /\ FreeText(last'.text)) =>
      LET c == last'.chat
      IN  /\ last'.handler = IF AwaitingMood(c) THEN "log_mood"
                             ELSE IF AwaitingJournal(c) THEN "save_journal"
                             ELSE "chat"
          /\ last'.handler = "log_mood"
               => /\ c \in DOMAIN mood_log' /\ mood_log'[c].mood = last'.text
                  /\ journal_log' = journal_log /\ journal_conv' = journal_conv
          /\ last'.handler = "save_journal"
               => /\ journal_log' # journal_log
                  /\ mood_log' = mood_log /\ mood_conv' = mood_conv
          /\ last'.handler = "chat"
               => /\ mood_log' = mood_log /\ journal_log' = journal_log
                  /\ mood_conv' = mood_conv /\ journal_conv' = journal_conv
          /\ (last'.reply = << >>) <=> (last'.classifier = "hang") ]_vars

\* With both flows awaiting, a free text was captured by log_mood alone: the
\* Journal flow is still awaiting and the journal is empty.
C17_Witness ==
  /\ last.handler = "log_mood"
  /\ FreeText(last.text)
  /\ AwaitingJournal(last.chat)
  /\ last.chat \notin DOMAIN journal_log
  /\ last.reply # << >>

====
